---- MODULE Spec2Model ----
(***************************************************************************)
(* Model of the dungeon generator (map.rs) and the movement validator      *)
(* (player.rs) of rusty_roguelike.                                         *)
(*                                                                         *)
(* Representation.                                                         *)
(*  - tiles is the set of indices of the tile vector that hold             *)
(*    TileType::Floor; every other index of 0..MAP_LENGTH-1 holds          *)
(*    TileType::Wall (TileAt reads it back).                               *)
(*  - A usize value u is written as its two's-complement signed reading:   *)
(*    a non-negative integer stands for itself, a negative integer s       *)
(*    stands for 2^64 + s.  All coordinates are tiny against 2^63, so the  *)
(*    reading is exact; "u < MAP_LENGTH" is then 0 <= s < MAP_LENGTH and   *)
(*    "u > 0" is s # 0.                                                    *)
(*  - A panic (index out of bounds, or an arithmetic overflow in a build   *)
(*    with overflow checks) sets fault and stops the program.              *)
(***************************************************************************)
EXTENDS Integers, Sequences, FiniteSets, TLC

VARIABLES tiles, rooms, iter, ok, pc, pos, dirty, fault, cand, tilesB, roomsB, last

vars == <<tiles, rooms, iter, ok, pc, pos, dirty, fault, cand, tilesB, roomsB, last>>

\* ---------------------------------------------------------------- constants
WIDTH == 80
HEIGHT == 50
MAX_ROOMS == 30
MIN_SIZE == 6
MAX_SIZE == 10

MAP_LENGTH == WIDTH * HEIGHT

\* ------------------------------------------------------------------- bounds
\* The generator's size draws are sampled every SizeStride values from
\* MIN_SIZE, its x and y draws every XStride / YStride cells from 0, and the
\* largest outcome of a position draw is always kept.
SizeStride == 4
XStride == 73
YStride == 43
\* The movement contract is exercised on the cells at most EdgeSpan away from
\* a corner of the grid.
EdgeSpan == 1
\* Corridor carving is exercised alone for at most MaxTunnels calls, with
\* coordinates taken around the ends of the grid up to TunnelSpan cells in.
MaxTunnels == 2
TunnelSpan == 2

\* ------------------------------------------------------------------ helpers
Min(a, b) == IF a < b THEN a ELSE b
Max(a, b) == IF a > b THEN a ELSE b

Deltas == {<<0, -1>>, <<-1, 0>>, <<0, 1>>, <<1, 0>>}

NoRoom == [x1 |-> 0, y1 |-> 0, x2 |-> 0, y2 |-> 0]
NoPos == [x |-> 0, y |-> 0]
\* last is the record of the latest call when calls are logged: the function
\* called, its arguments and the state it was called in.
NoCall == [op |-> "none", args |-> <<>>, from |-> NoPos, was_dirty |-> FALSE, tiles |-> {}]

\* ---------------------------------------------------------------- Map::xy_idx
\* (y as usize * WIDTH as usize) + x as usize, in the signed reading.
xy_idx(x, y) == (y * WIDTH) + x

\* The casts and the two operations overflow a usize exactly when y is
\* negative (the product) or x is negative and the sum is not (the addition).
xy_overflows(x, y) == y < 0 \/ (x < 0 /\ (y * WIDTH) + x >= 0)

InRange(idx) == idx >= 0 /\ idx < MAP_LENGTH

TileAt(t, idx) == IF idx \in t THEN "Floor" ELSE "Wall"

InGrid(x, y) == x >= 0 /\ x < WIDTH /\ y >= 0 /\ y < HEIGHT

\* ------------------------------------------------------------------- Rect
RectNew(x, y, w, h) == [x1 |-> x, y1 |-> y, x2 |-> x + w, y2 |-> y + h]

Intersect(a, b) == a.x1 <= b.x2 /\ a.x2 >= b.x1 /\ a.y1 <= b.y2 /\ a.y2 >= b.y1

Center(r) == <<(r.x1 + r.x2) \div 2, (r.y1 + r.y2) \div 2>>

\* ------------------------------------------------- the random number source
\* rng.range(lo, hi): lo inclusive, hi exclusive.  rng.roll_dice(1, n): 1..n.
Range(lo, hi) == lo .. (hi - 1)
RollDice(n) == 1 .. n

\* Every outcome of the four draws of one loop iteration.
AllSizes == Range(MIN_SIZE, MAX_SIZE)
\* Faulty variant: the die is one face too large (WIDTH - w instead of WIDTH - w - 1).
AllX_wide(w) == {d - 1 : d \in RollDice(WIDTH - w)}

AllX(w) == {d - 1 : d \in RollDice(WIDTH - w - 1)}
AllY(h) == {d - 1 : d \in RollDice(HEIGHT - h - 1)}
AllCoins == Range(0, 2)

\* The sampled outcomes the generator is run on.
DrawSizes == {v \in AllSizes : (v - MIN_SIZE) % SizeStride = 0}
DrawX(w) == {v \in AllX(w) : v % XStride = 0 \/ \A u \in AllX(w) : u <= v}
DrawY(h) == {v \in AllY(h) : v % YStride = 0 \/ \A u \in AllY(h) : u <= v}

\* ------------------------------------------------------ Map::apply_room_to_map
RoomCells(room) == {<<x, y>> : x \in (room.x1 + 1) .. room.x2, y \in (room.y1 + 1) .. room.y2}

\* tiles[idx] = Floor is an unchecked index: it panics out of range.
RoomPanics(room) == \E c \in RoomCells(room) : xy_overflows(c[1], c[2]) \/ ~InRange(xy_idx(c[1], c[2]))

\* Faulty variant: half-open ranges (..) in place of the inclusive ones (..=).
apply_room_half_open(t, room) == t \cup {xy_idx(c[1], c[2]) : c \in {d \in RoomCells(room) : d[1] < room.x2 /\ d[2] < room.y2}}

\* Faulty variant: the carving starts on the rectangle's own first row and column.
apply_room_from_edge(t, room) == t \cup {xy_idx(x, y) : x \in room.x1 .. room.x2, y \in room.y1 .. room.y2}

apply_room_to_map(t, room) == t \cup {xy_idx(c[1], c[2]) : c \in RoomCells(room)}

\* ------------------------------------------ Map::apply_horizontal_tunnel
TunnelGuard(idx) == idx > 0 /\ idx < MAP_LENGTH

HCells(x1, x2, y) == {<<x, y>> : x \in Min(x1, x2) .. Max(x1, x2)}

apply_horizontal_tunnel(t, x1, x2, y) == t \cup {xy_idx(c[1], c[2]) : c \in {d \in HCells(x1, x2, y) : TunnelGuard(xy_idx(d[1], d[2]))}}

\* With overflow checks the loop panics at its first overflowing cell; the
\* cells before it (smaller x) have been written.
HOverflows(x1, x2, y) == \E c \in HCells(x1, x2, y) : xy_overflows(c[1], c[2])

HBeforePanic(t, x1, x2, y) == t \cup {xy_idx(c[1], c[2]) : c \in {d \in HCells(x1, x2, y) : TunnelGuard(xy_idx(d[1], d[2])) /\ \A e \in HCells(x1, x2, y) : e[1] <= d[1] => ~xy_overflows(e[1], e[2])}}

\* -------------------------------------------- Map::apply_vertical_tunnel
VCells(y1, y2, x) == {<<x, y>> : y \in Min(y1, y2) .. Max(y1, y2)}

apply_vertical_tunnel(t, y1, y2, x) == t \cup {xy_idx(c[1], c[2]) : c \in {d \in VCells(y1, y2, x) : TunnelGuard(xy_idx(d[1], d[2]))}}

VOverflows(y1, y2, x) == \E c \in VCells(y1, y2, x) : xy_overflows(c[1], c[2])

VBeforePanic(t, y1, y2, x) == t \cup {xy_idx(c[1], c[2]) : c \in {d \in VCells(y1, y2, x) : TunnelGuard(xy_idx(d[1], d[2])) /\ \A e \in VCells(y1, y2, x) : e[2] <= d[2] => ~xy_overflows(e[1], e[2])}}

\* ------------------------------------- Map::connect_room_to_previous_room
\* coin is the outcome of rng.range(0, 2) of the generator built in the call.
\* Faulty variant: both tunnels of the first branch leave from the previous room
\* (the vertical one at prev_x instead of new_x).
connect_room_both_from_prev(t, new_room, prev_room, coin) ==
    LET new_x == Center(new_room)[1]
        new_y == Center(new_room)[2]
        prev_x == Center(prev_room)[1]
        prev_y == Center(prev_room)[2]
    IN  IF coin = 1
        THEN apply_vertical_tunnel(apply_horizontal_tunnel(t, prev_x, new_x, prev_y), prev_y, new_y, prev_x)
        ELSE apply_vertical_tunnel(apply_horizontal_tunnel(t, prev_x, new_x, new_y), prev_y, new_y, prev_x)

connect_room_to_previous_room(t, new_room, prev_room, coin) ==
    LET new_x == Center(new_room)[1]
        new_y == Center(new_room)[2]
        prev_x == Center(prev_room)[1]
        prev_y == Center(prev_room)[2]
    IN  IF coin = 1
        THEN apply_vertical_tunnel(apply_horizontal_tunnel(t, prev_x, new_x, prev_y), prev_y, new_y, new_x)
        ELSE apply_vertical_tunnel(apply_horizontal_tunnel(t, prev_x, new_x, new_y), prev_y, new_y, prev_x)

\* The corridor of a room accepted in the generator never leaves the grid
\* with a negative coordinate unless a centre does.
ConnectOverflows(new_room, prev_room) ==
    LET n == Center(new_room)
        p == Center(prev_room)
    IN  \E x \in {n[1], p[1]}, y \in {n[2], p[2]} : x < 0 \/ y < 0

\* ------------------------------------------- Map::add_rooms_and_corridors
\* The inner loop: ok is cleared by every accepted room the candidate meets.
\* Faulty variant: ok is assigned, not cleared, so only the last room compared counts.
RoomOk_last_only(new_room, rs) == rs = <<>> \/ ~Intersect(new_room, rs[Len(rs)])

RoomOk(new_room, rs) == ~\E k \in 1 .. Len(rs) : Intersect(new_room, rs[k])

\* One pass of the loop body on (tiles, rooms).
LoopBody(t, rs, new_room, coin) ==
    IF RoomOk(new_room, rs)
    THEN [tiles |-> IF rs # <<>>
                    THEN connect_room_to_previous_room(apply_room_to_map(t, new_room), new_room, rs[Len(rs)], coin)
                    ELSE apply_room_to_map(t, new_room),
          rooms |-> Append(rs, new_room)]
    ELSE [tiles |-> t, rooms |-> rs]

LoopPanics(rs, new_room) ==
    /\ RoomOk(new_room, rs)
    /\ \/ RoomPanics(new_room)
       \/ rs # <<>> /\ ConnectOverflows(new_room, rs[Len(rs)])

\* ------------------------------------------------------------------ states
\* Map::new_map_rooms_and_corridors up to the call of add_rooms_and_corridors.
Init ==
    /\ tiles = {}
    /\ rooms = <<>>
    /\ iter = 0
    /\ ok = TRUE
    /\ pc = "loop"
    /\ pos = NoPos
    /\ dirty = FALSE
    /\ fault = FALSE
    /\ cand = NoRoom
    /\ tilesB = {}
    /\ roomsB = <<>>
    /\ last = NoCall

\* One iteration of for _ in 0..MAX_ROOMS with the given outcomes of the
\* draws.
IterateWith(w, h, x, y, coin) ==
    LET new_room == RectNew(x, y, w, h)
        out == LoopBody(tiles, rooms, new_room, coin)
    IN  /\ pc = "loop"
        /\ ~fault
        /\ iter < MAX_ROOMS
        /\ ok' = RoomOk(new_room, rooms)
        /\ tiles' = out.tiles
        /\ rooms' = out.rooms
        /\ fault' = LoopPanics(rooms, new_room)
        /\ iter' = iter + 1
        /\ UNCHANGED <<pc, pos, dirty, cand, tilesB, roomsB, last>>

Iterate ==
    \E w \in DrawSizes, h \in DrawSizes :
        \E x \in DrawX(w), y \in DrawY(h), coin \in AllCoins :
            IterateWith(w, h, x, y, coin)

\* self.rooms = rooms; the map is returned.
Finish ==
    /\ pc = "loop"
    /\ ~fault
    /\ iter = MAX_ROOMS
    /\ pc' = "ready"
    /\ UNCHANGED <<tiles, rooms, iter, ok, pos, dirty, fault, cand, tilesB, roomsB, last>>

\* The player entity is created on a Floor tile of the finished map; its
\* viewshed is clean once the first visibility pass has run.
FloorCells(t) == {c \in (0 .. WIDTH - 1) \X (0 .. HEIGHT - 1) : xy_idx(c[1], c[2]) \in t}

Spawn ==
    /\ pc = "ready"
    /\ ~fault
    /\ \E c \in FloorCells(tiles) : pos' = [x |-> c[1], y |-> c[2]]
    /\ dirty' = FALSE
    /\ pc' = "play"
    /\ UNCHANGED <<tiles, rooms, iter, ok, fault, cand, tilesB, roomsB, last>>

\* ------------------------------------------------------- try_move_player
\* The body of the join loop for the one player entity.  checks tells
\* whether the build panics on arithmetic overflow (debug) or wraps (release).
\* Faulty variant: the dirty flag is set after the if, on every call that returns.
try_move_player_always_dirty(p, dty, t, delta_x, delta_y, checks) ==
    LET destination_idx == xy_idx(p.x + delta_x, p.y + delta_y)
    IN  IF checks /\ xy_overflows(p.x + delta_x, p.y + delta_y)
        THEN [pos |-> p, dirty |-> dty, fault |-> TRUE]
        ELSE IF ~InRange(destination_idx)
        THEN [pos |-> p, dirty |-> dty, fault |-> TRUE]
        ELSE IF TileAt(t, destination_idx) # "Wall"
        THEN [pos |-> [x |-> Min(WIDTH - 1, Max(0, p.x + delta_x)),
                       y |-> Min(HEIGHT - 1, Max(0, p.y + delta_y))],
              dirty |-> TRUE, fault |-> FALSE]
        ELSE [pos |-> p, dirty |-> TRUE, fault |-> FALSE]

\* Faulty variant: the new position is not clamped.
try_move_player_unclamped(p, dty, t, delta_x, delta_y, checks) ==
    LET destination_idx == xy_idx(p.x + delta_x, p.y + delta_y)
    IN  IF checks /\ xy_overflows(p.x + delta_x, p.y + delta_y)
        THEN [pos |-> p, dirty |-> dty, fault |-> TRUE]
        ELSE IF ~InRange(destination_idx)
        THEN [pos |-> p, dirty |-> dty, fault |-> TRUE]
        ELSE IF TileAt(t, destination_idx) # "Wall"
        THEN [pos |-> [x |-> p.x + delta_x, y |-> p.y + delta_y],
              dirty |-> TRUE, fault |-> FALSE]
        ELSE [pos |-> p, dirty |-> dty, fault |-> FALSE]

try_move_player(p, dty, t, delta_x, delta_y, checks) ==
    LET destination_idx == xy_idx(p.x + delta_x, p.y + delta_y)
    IN  IF checks /\ xy_overflows(p.x + delta_x, p.y + delta_y)
        THEN [pos |-> p, dirty |-> dty, fault |-> TRUE]
        ELSE IF ~InRange(destination_idx)
        THEN [pos |-> p, dirty |-> dty, fault |-> TRUE]
        ELSE IF TileAt(t, destination_idx) # "Wall"
        THEN [pos |-> [x |-> Min(WIDTH - 1, Max(0, p.x + delta_x)),
                       y |-> Min(HEIGHT - 1, Max(0, p.y + delta_y))],
              dirty |-> TRUE, fault |-> FALSE]
        ELSE [pos |-> p, dirty |-> dty, fault |-> FALSE]

\* player_input on W, A, S or D: one call of try_move_player.
MoveWith(d, checks) ==
    LET r == try_move_player(pos, dirty, tiles, d[1], d[2], checks)
    IN  /\ pc = "play"
        /\ ~fault
        /\ pos' = r.pos
        /\ dirty' = r.dirty
        /\ fault' = r.fault
        /\ UNCHANGED <<tiles, rooms, iter, ok, pc, cand, tilesB, roomsB>>

TryMove == \E d \in Deltas, checks \in BOOLEAN : MoveWith(d, checks) /\ UNCHANGED last

\* The same call, logged.
TryMoveLogged ==
    \E d \in Deltas, checks \in BOOLEAN :
        /\ MoveWith(d, checks)
        /\ last' = [op |-> "try_move_player", args |-> d, from |-> pos, was_dirty |-> dirty, tiles |-> tiles]

Next == Iterate \/ Finish \/ Spawn \/ TryMove

Spec == Init /\ [][Next]_vars

\* ------------------------------------------------ the movement contract
\* try_move_player on grids and positions around the four corners of the
\* grid: the corner cells are Floor but for at most one of them.
CornerCoords(n) == (0 .. EdgeSpan) \cup ((n - 1 - EdgeSpan) .. (n - 1))
CornerCells == CornerCoords(WIDTH) \X CornerCoords(HEIGHT)
CornerIdx == {xy_idx(c[1], c[2]) : c \in CornerCells}
CornerGrids == {CornerIdx} \cup {CornerIdx \ {w} : w \in CornerIdx}

InitMove ==
    /\ tiles \in CornerGrids
    /\ rooms = <<>>
    /\ iter = 0
    /\ ok = TRUE
    /\ pc = "play"
    /\ \E c \in CornerCells : xy_idx(c[1], c[2]) \in tiles /\ pos = [x |-> c[1], y |-> c[2]]
    /\ dirty \in BOOLEAN
    /\ fault = FALSE
    /\ cand = NoRoom
    /\ tilesB = {}
    /\ roomsB = <<>>
    /\ last = NoCall

NextMove == TryMoveLogged

SpecMove == InitMove /\ [][NextMove]_vars

\* --------------------------------------------- corridor carving on its own
\* The two tunnel functions on a fresh map, with end points around the ends
\* of the grid.
\* The k-th end point tried: 0 .. TunnelSpan, the last column (row), one past
\* it, and one before the first.
TunnelX(k) == IF k <= TunnelSpan THEN k ELSE IF k = TunnelSpan + 1 THEN WIDTH - 1 ELSE IF k = TunnelSpan + 2 THEN WIDTH ELSE -1
TunnelY(k) == IF k <= 1 THEN k ELSE IF k = 2 THEN HEIGHT - 1 ELSE IF k = 3 THEN HEIGHT ELSE -1
TunnelXNo == 0 .. (TunnelSpan + 3)
TunnelYNo == 0 .. 4

HTunnel ==
    \E checks \in BOOLEAN, ky \in TunnelYNo, kx1 \in TunnelXNo, kx2 \in TunnelXNo :
      LET x1 == TunnelX(kx1)
          x2 == TunnelX(kx2)
          y == TunnelY(ky)
      IN
        /\ pc = "tunnel"
        /\ ~fault
        /\ iter < MaxTunnels
        /\ iter' = iter + 1
        /\ IF checks /\ HOverflows(x1, x2, y)
           THEN tiles' = HBeforePanic(tiles, x1, x2, y) /\ fault' = TRUE
           ELSE tiles' = apply_horizontal_tunnel(tiles, x1, x2, y) /\ fault' = FALSE
        /\ last' = [op |-> "apply_horizontal_tunnel", args |-> <<x1, x2, y>>, from |-> pos, was_dirty |-> dirty, tiles |-> tiles]
        /\ UNCHANGED <<rooms, ok, pc, pos, dirty, cand, tilesB, roomsB>>

VTunnel ==
    \E checks \in BOOLEAN, kx \in TunnelXNo, ky1 \in TunnelYNo, ky2 \in TunnelYNo :
      LET x == TunnelX(kx)
          y1 == TunnelY(ky1)
          y2 == TunnelY(ky2)
      IN
        /\ pc = "tunnel"
        /\ ~fault
        /\ iter < MaxTunnels
        /\ iter' = iter + 1
        /\ IF checks /\ VOverflows(y1, y2, x)
           THEN tiles' = VBeforePanic(tiles, y1, y2, x) /\ fault' = TRUE
           ELSE tiles' = apply_vertical_tunnel(tiles, y1, y2, x) /\ fault' = FALSE
        /\ last' = [op |-> "apply_vertical_tunnel", args |-> <<y1, y2, x>>, from |-> pos, was_dirty |-> dirty, tiles |-> tiles]
        /\ UNCHANGED <<rooms, ok, pc, pos, dirty, cand, tilesB, roomsB>>

InitTunnel ==
    /\ tiles = {}
    /\ rooms = <<>>
    /\ iter = 0
    /\ ok = TRUE
    /\ pc = "tunnel"
    /\ pos = NoPos
    /\ dirty = FALSE
    /\ fault = FALSE
    /\ cand = NoRoom
    /\ tilesB = {}
    /\ roomsB = <<>>
    /\ last = NoCall

NextTunnel == HTunnel \/ VTunnel

SpecTunnel == InitTunnel /\ [][NextTunnel]_vars

\* ------------------------------------------------ the draws of a candidate
\* Lines 44-48 on their own, over every outcome of the four draws.
DrawCandidate ==
    /\ pc = "draw"
    /\ \E w \in AllSizes, h \in AllSizes :
         \E x \in AllX(w), y \in AllY(h) : cand' = RectNew(x, y, w, h)
    /\ pc' = "drawn"
    /\ UNCHANGED <<tiles, rooms, iter, ok, pos, dirty, fault, tilesB, roomsB, last>>

InitDraw ==
    /\ tiles = {}
    /\ rooms = <<>>
    /\ iter = 0
    /\ ok = TRUE
    /\ pc = "draw"
    /\ pos = NoPos
    /\ dirty = FALSE
    /\ fault = FALSE
    /\ cand = NoRoom
    /\ tilesB = {}
    /\ roomsB = <<>>
    /\ last = NoCall

NextDraw == DrawCandidate

SpecDraw == InitDraw /\ [][NextDraw]_vars

\* ------------------------------------------------- the placement loop, close up
\* The loop of lines 43-64 on candidates that crowd one corner of the map.
\* The widths and heights drawn are MIN_SIZE and PlaceStep; the positions
\* drawn are the farthest one a MIN_SIZE room can get and the one PlaceStep
\* short of it (the wider room can only get the nearer one).  Along each
\* axis that gives three extents: the two at the near position are nested,
\* the wider of them ends on the cell where the far one begins, and the
\* narrower ends one cell before it.
PlaceStep == 7
PlaceSizes == {v \in AllSizes : v = MIN_SIZE \/ v = PlaceStep}
FarX == WIDTH - MIN_SIZE - 2
FarY == HEIGHT - MIN_SIZE - 2
PlaceX(w) == {v \in AllX(w) : v = FarX \/ v = FarX - PlaceStep}
PlaceY(h) == {v \in AllY(h) : v = FarY \/ v = FarY - PlaceStep}

\* One iteration of the loop, as IterateWith, with the candidate of line 48
\* kept in cand.
IterateLogged(w, h, x, y, coin) ==
    LET new_room == RectNew(x, y, w, h)
        out == LoopBody(tiles, rooms, new_room, coin)
    IN  /\ pc = "loop"
        /\ ~fault
        /\ iter < MAX_ROOMS
        /\ cand' = new_room
        /\ ok' = RoomOk(new_room, rooms)
        /\ tiles' = out.tiles
        /\ rooms' = out.rooms
        /\ fault' = LoopPanics(rooms, new_room)
        /\ iter' = iter + 1
        /\ UNCHANGED <<pc, pos, dirty, tilesB, roomsB, last>>

IteratePlace ==
    \E w \in PlaceSizes, h \in PlaceSizes :
        \E x \in PlaceX(w), y \in PlaceY(h), coin \in AllCoins :
            IterateLogged(w, h, x, y, coin)

NextPlace == IteratePlace \/ Finish

SpecPlace == Init /\ [][NextPlace]_vars

\* ------------------------------------------------------ two runs, side by side
\* Two runs of add_rooms_and_corridors whose generators of line 37 are in the
\* same state, so that the four draws of every iteration agree.  Each call
\* of connect_room_to_previous_room builds its own generator (line 70), so
\* its outcome is drawn separately in each run.
IterateTwin ==
    /\ pc = "loop"
    /\ ~fault
    /\ iter < MAX_ROOMS
    /\ \E w \in DrawSizes, h \in DrawSizes :
         \E x \in DrawX(w), y \in DrawY(h), coin \in AllCoins, coinB \in AllCoins :
            LET new_room == RectNew(x, y, w, h)
                out == LoopBody(tiles, rooms, new_room, coin)
                outB == LoopBody(tilesB, roomsB, new_room, coinB)
            IN  /\ ok' = RoomOk(new_room, rooms)
                /\ tiles' = out.tiles
                /\ rooms' = out.rooms
                /\ tilesB' = outB.tiles
                /\ roomsB' = outB.rooms
                /\ fault' = (LoopPanics(rooms, new_room) \/ LoopPanics(roomsB, new_room))
    /\ iter' = iter + 1
    /\ UNCHANGED <<pc, pos, dirty, cand, last>>

NextTwin == IterateTwin \/ Finish

SpecTwin == Init /\ [][NextTwin]_vars

\* ================================================================== claims
\* The destination of the logged call, and the tile index the claims speak
\* of, written out from the coordinates.
Moved == last.op = "try_move_player"
LastX == last.from.x + last.args[1]
LastY == last.from.y + last.args[2]
LastIdx == LastY * WIDTH + LastX
\* The logged call read tiles[destination_idx]: it did not panic before.
LastRead == Moved /\ ~fault

\* The inclusive-bounds test of the claim, written out.
Overlap(a, b) == a.x1 <= b.x2 /\ a.x2 >= b.x1 /\ a.y1 <= b.y2 /\ a.y2 >= b.y1
NoOverlap(rs) == \A i \in 1 .. Len(rs), j \in 1 .. Len(rs) : i # j => ~Overlap(rs[i], rs[j])

\* Flood fill over Floor tiles, 4-connected, on tile indices.
Neigh(idx) ==
    {n \in {idx - WIDTH, idx + WIDTH} : n >= 0 /\ n < MAP_LENGTH}
        \cup (IF idx % WIDTH # 0 THEN {idx - 1} ELSE {})
        \cup (IF idx % WIDTH # WIDTH - 1 THEN {idx + 1} ELSE {})

\* One breadth-first step from st.frontier, and eight of them in a row.
Grow(t, st) ==
    LET nxt == ((UNION {Neigh(c) : c \in st.frontier}) \cap t) \ st.seen
    IN  [frontier |-> nxt, seen |-> st.seen \cup nxt]

Grow8(t, st) == Grow(t, Grow(t, Grow(t, Grow(t, Grow(t, Grow(t, Grow(t, Grow(t, st))))))))

RECURSIVE Flood(_, _)
Flood(t, st) == IF st.frontier = {} THEN st.seen ELSE Flood(t, Grow8(t, st))

CenterIdx(r) == ((r.y1 + r.y2) \div 2) * WIDTH + ((r.x1 + r.x2) \div 2)
FloorPath(t, a, b) == a \in t /\ b \in Flood(t, [frontier |-> {a}, seen |-> {a}])

BorderIdx == {y * WIDTH + x : x \in {0, WIDTH - 1}, y \in 0 .. HEIGHT - 1} \cup {y * WIDTH + x : x \in 0 .. WIDTH - 1, y \in {0, HEIGHT - 1}}

\* C1: two runs of the generator whose random source (the generator of
\* add_rooms_and_corridors) starts in the same state produce the same tiles
\* and the same rooms in the same order.  The code breaks it: the corridor
\* bend comes from a generator built anew in every call.
C1_Deterministic == tiles = tilesB /\ rooms = roomsB

\* A candidate only touches an accepted room: the two meet under the
\* inclusive test and one's first row or column is the other's last.
Touches(a, b) == Overlap(a, b) /\ (a.x1 = b.x2 \/ a.x2 = b.x1 \/ a.y1 = b.y2 \/ a.y2 = b.y1)

\* C2: after every iteration of the placement loop no two distinct accepted
\* rooms meet under the inclusive-bounds test, and an iteration whose
\* candidate meets an accepted room leaves tiles and rooms as they were.
C2_NonOverlap ==
    [][/\ NoOverlap(rooms')
       /\ (/\ pc = "loop"
           /\ iter' = iter + 1
           /\ \E k \in 1 .. Len(rooms) : Overlap(cand', rooms[k]))
          => (tiles' = tiles /\ rooms' = rooms)]_vars

\* Two rooms are accepted and the last candidate was skipped although it is
\* none of them and shares no more than a border line with any of them: the
\* rejection that only the inclusive comparisons make.
C2_Witness ==
    /\ pc = "loop"
    /\ ~ok
    /\ Len(rooms) >= 2
    /\ \E k \in 1 .. Len(rooms) : Touches(cand, rooms[k])
    /\ \A k \in 1 .. Len(rooms) : Overlap(cand, rooms[k]) => Touches(cand, rooms[k])

\* C3: at the end of generation every accepted room after the first has a
\* 4-connected path of Floor tiles from its centre to the centre of the room
\* accepted just before it.
C3_ChainConnected ==
    pc = "ready" => \A k \in 2 .. Len(rooms) : FloorPath(tiles, CenterIdx(rooms[k]), CenterIdx(rooms[k - 1]))

\* A finished map of four rooms whose second room is neither in the row nor
\* in the column of the first: a real dogleg was carved.
C3_Witness ==
    /\ pc = "ready"
    /\ Len(rooms) = 4
    /\ rooms[1].x1 # rooms[2].x1
    /\ rooms[1].y1 # rooms[2].y1

\* C4: every tile (x, y) with x1+1 <= x <= x2 and y1+1 <= y <= y2 of every
\* accepted room is Floor, as soon as the room is accepted and in every
\* later state, the end of generation included; and carving the first room
\* makes Floor exactly its interior.
C4_InteriorFloor ==
    /\ \A k \in 1 .. Len(rooms) :
        \A x \in (rooms[k].x1 + 1) .. rooms[k].x2, y \in (rooms[k].y1 + 1) .. rooms[k].y2 :
            TileAt(tiles, y * WIDTH + x) = "Floor"
    /\ Len(rooms) = 1 =>
        tiles = {y * WIDTH + x : x \in (rooms[1].x1 + 1) .. rooms[1].x2, y \in (rooms[1].y1 + 1) .. rooms[1].y2}

\* A finished map of four rooms with corridors carved after the first room
\* (Floor outside every room), one of them along the first room's centre row.
C4_Witness ==
    /\ pc = "ready"
    /\ Len(rooms) = 4
    /\ \E n \in tiles :
        /\ n \div WIDTH = (rooms[1].y1 + rooms[1].y2) \div 2
        /\ \A k \in 1 .. 4 : ~(n % WIDTH \in (rooms[k].x1 + 1) .. rooms[k].x2)

\* C5: when the tile read at the destination is Wall, try_move_player
\* changes nothing (position, dirty flag, tiles) and does not fail.
C5_BlockedNoChange ==
    (Moved /\ ~xy_overflows(LastX, LastY) /\ InRange(LastIdx) /\ TileAt(last.tiles, LastIdx) = "Wall")
        => (pos = last.from /\ dirty = last.was_dirty /\ tiles = last.tiles /\ ~fault)

C5_Witness ==
    /\ Moved
    /\ InGrid(LastX, LastY)
    /\ TileAt(last.tiles, LastIdx) = "Wall"
    /\ ~last.was_dirty
    /\ pos = last.from

\* C6: when the tile read at the destination is not Wall, try_move_player
\* sets x to min(WIDTH-1, max(0, x+dx)), y to min(HEIGHT-1, max(0, y+dy)) and
\* the dirty flag to true; in every other case the dirty flag keeps its
\* value.
C6_MoveClampsAndDirties ==
    Moved =>
        IF LastRead /\ TileAt(last.tiles, LastIdx) # "Wall"
        THEN /\ pos.x = Min(WIDTH - 1, Max(0, LastX))
             /\ pos.y = Min(HEIGHT - 1, Max(0, LastY))
             /\ dirty
        ELSE dirty = last.was_dirty /\ pos = last.from

\* An accepted move that steps to the neighbouring cell and raises the flag.
C6_Witness ==
    /\ LastRead
    /\ InGrid(LastX, LastY)
    /\ TileAt(last.tiles, LastIdx) # "Wall"
    /\ ~last.was_dirty
    /\ dirty
    /\ pos = [x |-> LastX, y |-> LastY]

\* C7: for a position on the edge and a delta that points off the grid the
\* call completes without a fault, leaves the position inside the grid, and
\* reads no tile through the index computed from the off-grid coordinate.
C7_EdgeMoveSafe ==
    (Moved /\ ~InGrid(LastX, LastY))
        => (~fault /\ InGrid(pos.x, pos.y) /\ ~InRange(LastIdx))

\* C8: a tunnel call sets to Floor every tile whose computed index lies in
\* 0 .. MAP_LENGTH-1, index 0 included, writes nothing else, and does not
\* fail.
C8_TunnelClips ==
    /\ last.op = "apply_horizontal_tunnel" =>
        /\ ~fault
        /\ tiles = last.tiles \cup {n \in {last.args[3] * WIDTH + x : x \in Min(last.args[1], last.args[2]) .. Max(last.args[1], last.args[2])} : n >= 0 /\ n < MAP_LENGTH}
    /\ last.op = "apply_vertical_tunnel" =>
        /\ ~fault
        /\ tiles = last.tiles \cup {n \in {y * WIDTH + last.args[3] : y \in Min(last.args[1], last.args[2]) .. Max(last.args[1], last.args[2])} : n >= 0 /\ n < MAP_LENGTH}

\* C9 as claimed: every candidate has w and h in MIN_SIZE .. MAX_SIZE and its
\* rectangle strictly inside the border: 1 <= x, x+w <= WIDTH-2, 1 <= y,
\* y+h <= HEIGHT-2.
C9_StrictlyInside ==
    pc = "drawn" =>
        /\ cand.x2 - cand.x1 \in MIN_SIZE .. MAX_SIZE
        /\ cand.y2 - cand.y1 \in MIN_SIZE .. MAX_SIZE
        /\ 1 <= cand.x1 /\ cand.x2 <= WIDTH - 2
        /\ 1 <= cand.y1 /\ cand.y2 <= HEIGHT - 2

\* C9 as amended: every candidate has w and h in MIN_SIZE .. MAX_SIZE and
\* 0 <= x, x+w <= WIDTH-2, 0 <= y, y+h <= HEIGHT-2; the rectangle may lie on
\* the left or top border, the interior it carves (x+1 .. x+w, y+1 .. y+h)
\* never does.
C9_InsideFromZero ==
    pc = "drawn" =>
        /\ cand.x2 - cand.x1 \in MIN_SIZE .. MAX_SIZE
        /\ cand.y2 - cand.y1 \in MIN_SIZE .. MAX_SIZE
        /\ 0 <= cand.x1 /\ cand.x2 <= WIDTH - 2
        /\ 0 <= cand.y1 /\ cand.y2 <= HEIGHT - 2

\* A candidate on the left border that reaches the last allowed row.
C9_Witness == pc = "drawn" /\ cand.x1 = 0 /\ cand.y2 = HEIGHT - 2

\* C10: every tile of the grid border is Wall; a player spawned on Floor and
\* moved by any sequence of the four moves never faults and stands on a
\* Floor tile with 1 <= x <= WIDTH-2 and 1 <= y <= HEIGHT-2, and every
\* destination it can ask for next is a cell of the grid whose index is
\* computed without overflow and lies in 0 .. MAP_LENGTH-1.
C10_BorderWallPlayerInside ==
    /\ BorderIdx \cap tiles = {}
    /\ ~fault
    /\ pc = "play" =>
        /\ TileAt(tiles, pos.y * WIDTH + pos.x) = "Floor"
        /\ 1 <= pos.x /\ pos.x <= WIDTH - 2
        /\ 1 <= pos.y /\ pos.y <= HEIGHT - 2
        /\ \A d \in Deltas :
            /\ InGrid(pos.x + d[1], pos.y + d[2])
            /\ ~xy_overflows(pos.x + d[1], pos.y + d[2])
            /\ InRange(xy_idx(pos.x + d[1], pos.y + d[2]))
            /\ xy_idx(pos.x + d[1], pos.y + d[2]) = (pos.y + d[2]) * WIDTH + (pos.x + d[1])

\* The player has walked (the flag is raised) into the corner cell next to
\* the border, in a map with a room in every corner.
C10_Witness ==
    /\ pc = "play"
    /\ dirty
    /\ pos = [x |-> WIDTH - 2, y |-> HEIGHT - 2]
    /\ Len(rooms) = 4
====
